---- MODULE Spec2Model ----
(***************************************************************************)
(* Model of locust.py: the module-level parsing of the TEST_USER_IDS       *)
(* setting and the ApiUser class (on_start, get_user).                     *)
(*                                                                         *)
(* Strings the code takes apart (the environment value, JSON string        *)
(* bodies) are sequences of one-character strings; strings the code only   *)
(* builds (failure messages, the request name) are TLA+ strings.           *)
(***************************************************************************)
EXTENDS Integers, Sequences, FiniteSets, TLC

\* ------------------------------------------------------------------ bounds

\* Number of virtual users (ApiUser instances) the runner spawns.
NumUsers == 2

\* Number of get_user invocations after which the run is cut.
MaxRequests == 2

Users == 1..NumUsers

\* ------------------------------------------------- module level (l. 30-33)

\* DEFAULT_ID = "6b7bc0ee-af3e-11f0-89c7-52c2e832ce81"
DEFAULT_ID ==
    << "6","b","7","b","c","0","e","e","-","a","f","3","e","-",
       "1","1","f","0","-","8","9","c","7","-",
       "5","2","c","2","e","8","3","2","c","e","8","1" >>

\* Characters str.strip() removes when called without arguments.
Whitespace == {" ", "\t", "\n", "\r"}

\* The environment as the process finds it: the variable is absent, or holds
\* a string: empty, only blanks, only commas, one id (bare or padded), several
\* ids (with and without empty pieces between them).
EnvValues ==
    { << >>,
      << " " >>,
      << "," >>,
      << ",", " ", "," >>,
      << "a" >>,
      << " ", "a", " " >>,
      << "a", "," >>,
      << ",", "a" >>,
      << "a", "b" >>,
      << "a", " ", "b" >>,
      << "a", ",", "b" >>,
      << "b", ",", " ", "a", ",", ",", "b", " " >> }

EnvSettings ==
    { [set |-> FALSE, value |-> << >>] }
        \cup { [set |-> TRUE, value |-> v] : v \in EnvValues }

\* os.getenv(name, default): the default only when the variable is absent.
getenv(e, default) == IF e.set THEN e.value ELSE default

\* s.split(","): the pieces between commas; always at least one piece.
RECURSIVE split(_)
split(s) ==
    IF \A i \in 1..Len(s) : s[i] # ","
    THEN << s >>
    ELSE LET i == CHOOSE k \in 1..Len(s) :
                      s[k] = "," /\ \A j \in 1..(k - 1) : s[j] # ","
         IN  << SubSeq(s, 1, i - 1) >> \o split(SubSeq(s, i + 1, Len(s)))

\* s.strip(): leading and trailing whitespace removed.
RECURSIVE strip(_)
strip(s) ==
    IF s = << >> THEN s
    ELSE IF s[1] \in Whitespace THEN strip(Tail(s))
    ELSE IF s[Len(s)] \in Whitespace THEN strip(SubSeq(s, 1, Len(s) - 1))
    ELSE s

\* [s.strip() for s in pieces if s.strip()]
RECURSIVE StripNonEmpty(_)
StripNonEmpty(pieces) ==
    IF pieces = << >> THEN << >>
    ELSE LET h == strip(Head(pieces))
         IN  (IF h # << >> THEN << h >> ELSE << >>) \o StripNonEmpty(Tail(pieces))

\* _ids_env = os.getenv("TEST_USER_IDS", DEFAULT_ID)
\* TEST_USER_IDS = [s.strip() for s in _ids_env.split(",") if s.strip()]
ParseIds(e) == StripNonEmpty(split(getenv(e, DEFAULT_ID)))

\* --------------------------------------------------------------- responses

\* What the client hands to the with-block.  A request that fails below HTTP
\* (timeout, refused connection, DNS failure) is handed over as a response
\* with status code 0, no content and the error attached; it does not raise.
TransportErrors == {"timeout", "connection refused", "dns failure"}

HttpStatuses == {200, 201, 404, 500}

Chars(str) ==
    CASE str = "user"  -> << "u", "s", "e", "r" >>
      [] str = "users" -> << "u", "s", "e", "r", "s" >>
      [] str = "use"   -> << "u", "s", "e" >>
      [] OTHER         -> << >>

\* Bodies by what json.loads makes of them: text that is not JSON, an object
\* (its keys), an array of strings (its items), a string, a number, null.
NoBody == [kind |-> "none", names |-> {}, text |-> << >>]

Bodies ==
    { [kind |-> "text", names |-> {}, text |-> << >>] }
        \cup { [kind |-> "object", names |-> k, text |-> << >>] :
                   k \in SUBSET {"user", "source"} }
        \cup { [kind |-> "array", names |-> k, text |-> << >>] :
                   k \in SUBSET {"user", "x"} }
        \cup { [kind |-> "string", names |-> {}, text |-> Chars(s)] :
                   s \in {"user", "users", "use", ""} }
        \cup { [kind |-> k, names |-> {}, text |-> << >>] : k \in {"number", "null"} }

\* Only a 200 response has its body read; the other statuses come with an
\* error page, an empty object and a well-formed user object.
OtherBodies ==
    { [kind |-> "text", names |-> {}, text |-> << >>],
      [kind |-> "object", names |-> {}, text |-> << >>],
      [kind |-> "object", names |-> {"user"}, text |-> << >>] }

Responses ==
    { [status_code |-> 0, body |-> NoBody, error |-> e] : e \in TransportErrors }
        \cup { [status_code |-> 200, body |-> b, error |-> "none"] : b \in Bodies }
        \cup { [status_code |-> c, body |-> b, error |-> "none"] :
                   c \in HttpStatuses \ {200}, b \in OtherBodies }

NoResponse == [status_code |-> -1, body |-> NoBody, error |-> "none"]

\* ------------------------------------------------------ get_user (l. 66-94)

\* A call of resp.success() or resp.failure(message) made in the with-block.
Success == [result |-> "success", reason |-> ""]

Failure(message) == [result |-> "failure", reason |-> message]

\* x in s, for strings: s has x as a contiguous part.
IsSubstring(x, s) ==
    \E i \in 0..(Len(s) - Len(x)) : SubSeq(s, i + 1, i + Len(x)) = x

\* resp.json(): json.loads of the body's text.
JsonRaises(body) ==
    CASE body.kind = "text" -> "JSONDecodeError"
      [] body.kind = "none" -> "TypeError"
      [] OTHER              -> "none"

\* key in data, as Python evaluates it on what json.loads returned: key
\* membership on a dict, element membership on a list, substring on a str;
\* a number or None is not iterable and the test raises TypeError.
InRaises(data) == IF data.kind \in {"number", "null"} THEN "TypeError" ELSE "none"

In(key, data) ==
    CASE data.kind = "object" -> key \in data.names
      [] data.kind = "array"  -> key \in data.names
      [] data.kind = "string" -> IsSubstring(Chars(key), data.text)
      [] OTHER                -> FALSE

\* f"Unexpected status code: {resp.status_code}" with the f prefix forgotten.
UnexpectedStatusLiteral(code) == "Unexpected status code: {resp.status_code}"

\* f"Unexpected status code: {resp.status_code}"
UnexpectedStatus(code) == "Unexpected status code: " \o ToString(code)

Done(marks) == [marks |-> marks, raised |-> "none"]

Raise(exc) == [marks |-> << >>, raised |-> exc]

\* The branch taken for status 200 (l. 73-89): only json.JSONDecodeError is
\* caught; any other exception leaves the with-block with nothing marked.
Body200(data) ==
    IF JsonRaises(data) = "JSONDecodeError"
    THEN Done(<< Failure("Invalid JSON response") >>)
    ELSE IF JsonRaises(data) # "none" THEN Raise(JsonRaises(data))
    ELSE IF InRaises(data) # "none" THEN Raise(InRaises(data))
    ELSE IF ~In("user", data)
    THEN Done(<< Failure("Missing 'user' field in response") >>)
    ELSE Done(<< Success >>)

\* The with-block with its first test written "!= 404" instead of "== 200".
ClassifyNot404(resp) ==
    IF resp.status_code # 404 THEN Body200(resp.body)
    ELSE Done(<< Failure("User not found") >>)

\* The with-block (l. 72-94): the calls of success()/failure() it makes, in
\* order, and the exception that leaves it, if any.
Classify(resp) ==
    IF resp.status_code = 200 THEN Body200(resp.body)
    ELSE IF resp.status_code = 404 THEN Done(<< Failure("User not found") >>)
    ELSE Done(<< Failure(UnexpectedStatus(resp.status_code)) >>)

\* ------------------------------------------------------------------ state

VARIABLES
    env,            \* the TEST_USER_IDS environment variable
    TEST_USER_IDS,  \* the module-level list parsed from it
    ustate,         \* per user: "spawning" until on_start has run, then "running"
    headers,        \* per user: self.headers
    last,           \* the latest get_user invocation
    stats,          \* outcomes recorded under the request name
    calls           \* get_user invocations so far

vars == << env, TEST_USER_IDS, ustate, headers, last, stats, calls >>

NoHeaders == [ContentType |-> "", UserAgent |-> "", Connection |-> ""]

\* self.headers as on_start sets it (l. 49-53).
Headers ==
    [ContentType |-> "application/json",
     UserAgent   |-> "Locust/FastApiUser",
     Connection  |-> "keep-alive"]

RequestName == "GET /api/v1/user/[id]"

\* f"/api/v1/get/user/{TEST_USER_IDS[0]}"
Path(ids) == << "/api/v1/get/user/" >> \o ids[1]

NoInvocation ==
    [user |-> 0, sent |-> FALSE, name |-> RequestName, path |-> << >>,
     headers |-> NoHeaders,
     resp |-> NoResponse, marks |-> << >>, raised |-> "none"]

\* Leaving the with-block of a catch_response=True request: the request is
\* recorded as the block marked it; a block left by an exception before any
\* mark records nothing.
Report(st, marks) ==
    IF marks = << >> THEN st
    ELSE [num_requests |-> st.num_requests + 1,
          num_failures |-> st.num_failures
                             + (IF marks[Len(marks)].result = "failure" THEN 1 ELSE 0)]

Init ==
    /\ env \in EnvSettings
    /\ TEST_USER_IDS = ParseIds(env)
    /\ ustate = [u \in Users |-> "spawning"]
    /\ headers = [u \in Users |-> NoHeaders]
    /\ last = NoInvocation
    /\ stats = [num_requests |-> 0, num_failures |-> 0]
    /\ calls = 0

\* on_start (l. 47-53): runs once per user spawn, before the user's tasks.
on_start(u) ==
    /\ ustate[u] = "spawning"
    /\ headers' = [headers EXCEPT ![u] = Headers]
    /\ ustate' = [ustate EXCEPT ![u] = "running"]
    /\ UNCHANGED << env, TEST_USER_IDS, last, stats, calls >>

\* get_user (l. 56-94), one invocation from the request to the end of the
\* with-block.  TEST_USER_IDS[0] is evaluated before the request is made: on
\* an empty list it raises IndexError and nothing is sent.  An exception that
\* leaves the task is logged by the runner and the user goes on.
get_user(u) ==
    /\ ustate[u] = "running"
    /\ calls < MaxRequests
    /\ calls' = calls + 1
    /\ IF TEST_USER_IDS = << >>
       THEN /\ last' = [NoInvocation EXCEPT !.user = u, !.raised = "IndexError"]
            /\ stats' = stats
       ELSE \E resp \in Responses :
              LET r == Classify(resp)
              IN  /\ last' = [user |-> u, sent |-> TRUE, name |-> RequestName,
                              path |-> Path(TEST_USER_IDS),
                              headers |-> headers[u], resp |-> resp,
                              marks |-> r.marks, raised |-> r.raised]
                  /\ stats' = Report(stats, r.marks)
    /\ UNCHANGED << env, TEST_USER_IDS, ustate, headers >>

Next == \E u \in Users : on_start(u) \/ get_user(u)

Spec == Init /\ [][Next]_vars

\* ----------------------------------------------------------------- claims

\* The response of the latest invocation is the one the API documents for a
\* found user: status 200 and a JSON object with a "user" key.
ValidUserResponse ==
    /\ last.resp.status_code = 200
    /\ last.resp.body.kind = "object"
    /\ "user" \in last.resp.body.names

OneFailure == Len(last.marks) = 1 /\ last.marks[1].result = "failure"

\* C1 (as claimed): for every response delivered to get_user, the recorded
\* outcome is Success exactly when the status is 200 and the body is the
\* expected structure with a "user" field; every other response is recorded
\* as a Failure.
C1_SuccessIffUserField ==
    last.sent =>
        /\ ValidUserResponse => last.marks = << Success >>
        /\ ~ValidUserResponse => OneFailure

\* C2 (as claimed): the failure reasons are the spec's: "missing field" for
\* status 200 with body {}, "not found" for 404, "unexpected status: c" for
\* any other status code c.
C2_SpecReasons ==
    last.sent =>
        /\ (last.resp.status_code = 200
              /\ last.resp.body = [kind |-> "object", names |-> {}, text |-> << >>])
             => last.marks = << Failure("missing field") >>
        /\ last.resp.status_code = 404
             => last.marks = << Failure("not found") >>
        /\ last.resp.status_code \notin {200, 404}
             => last.marks
                  = << Failure("unexpected status: " \o ToString(last.resp.status_code)) >>

\* C2 (amended): the failure reasons are the script's: "Missing 'user' field
\* in response" for status 200 with body {}, "User not found" for 404,
\* "Unexpected status code: c" for any other status code c.
C2_CodeReasons ==
    last.sent =>
        /\ (last.resp.status_code = 200
              /\ last.resp.body = [kind |-> "object", names |-> {}, text |-> << >>])
             => last.marks = << Failure("Missing 'user' field in response") >>
        /\ last.resp.status_code = 404
             => last.marks = << Failure("User not found") >>
        /\ last.resp.status_code \notin {200, 404}
             => last.marks
                  = << Failure("Unexpected status code: "
                                  \o ToString(last.resp.status_code)) >>

\* A 500 response has been classified.
C2_Witness ==
    /\ last.sent
    /\ last.resp.status_code = 500
    /\ last.marks = << Failure("Unexpected status code: 500") >>

C4_ExactlyOneOutcome == last.sent => Len(last.marks) = 1

\* The response of the latest invocation is one of the failures of section 7:
\* a transport failure, an unexpected status or shape, a malformed body.
FailedIteration ==
    \/ last.resp.error \in TransportErrors
    \/ last.resp.status_code # 200
    \/ last.resp.body.kind # "object"
    \/ "user" \notin last.resp.body.names

\* C5 (as claimed): after an iteration that failed, the failure is recorded
\* as a Failure outcome and the user is still running.
C5_FailureRecordedUserRuns ==
    (last.sent /\ FailedIteration) =>
        /\ OneFailure
        /\ stats.num_failures >= 1
        /\ ustate[last.user] = "running"

\* C10 (as claimed): for every value of the TEST_USER_IDS setting the parsed
\* list is non-empty, it is the single default identifier when the setting is
\* unset, and every get_user invocation sends a request.
C10_IdsNonEmpty ==
    last.user # 0 =>
        /\ TEST_USER_IDS # << >>
        /\ ~env.set => TEST_USER_IDS = << DEFAULT_ID >>
        /\ last.sent
        /\ last.path = Path(TEST_USER_IDS)

====
